---- MODULE Spec2Model ----
(***************************************************************************)
(* MockLocalChannel.RunScript (channel/local_mock.go): staging of a script *)
(* package, permission normalisation and execution of its entry point      *)
(* through the namespace-entry helper, and decoding of the helper output.  *)
(*                                                                         *)
(* A Go string is a sequence of chunks.  A chunk is either the single      *)
(* space " ", the newline "\n", or a piece of text without blanks, so that *)
(* strings.Split(s, " ") and strings.TrimSpace(s) are computed, not        *)
(* assumed.                                                                *)
(***************************************************************************)
EXTENDS Naturals, Sequences, FiniteSets, TLC

VARIABLES
    goos,       \* runtime.GOOS of the build
    disk,       \* package files present on the filesystem
    now,        \* the value time.Now().UnixNano() returns
    staged,     \* <<directory, file name>> pairs written by UnTar
    inv,        \* per invocation: position, request, locals, launches, result
    load        \* "single": one caller; "concurrent": every goroutine calls

vars == <<goos, disk, now, staged, inv, load>>

\* ------------------------------------------------------------------ bounds
NumInv == 2
MaxClock == 2

Invocations == 1..NumInv

\* ----------------------------------------------------------------- strings
SP == " "
NL == "\n"

Str(c) == <<c>>

IsBlank(c) == c \in {SP, NL, "\t"}

\* strings.TrimSpace
RECURSIVE TrimLeft(_)
TrimLeft(s) ==
    IF s = <<>> THEN <<>>
    ELSE IF IsBlank(Head(s)) THEN TrimLeft(Tail(s)) ELSE s

RECURSIVE TrimRight(_)
TrimRight(s) ==
    IF s = <<>> THEN <<>>
    ELSE IF IsBlank(s[Len(s)]) THEN TrimRight(SubSeq(s, 1, Len(s) - 1)) ELSE s

TrimSpace(s) == TrimRight(TrimLeft(s))

\* strings.Split(s, " "): the fields between single spaces, empty ones kept
RECURSIVE SplitFrom(_, _)
SplitFrom(s, cur) ==
    IF s = <<>> THEN <<cur>>
    ELSE IF Head(s) = SP THEN <<cur>> \o SplitFrom(Tail(s), <<>>)
    ELSE SplitFrom(Tail(s), cur \o <<Head(s)>>)

Split(s) == SplitFrom(s, <<>>)

\* strings.Contains
Contains(s, t) ==
    \E k \in 0..(Len(s) - Len(t)) : SubSeq(s, k + 1, k + Len(t)) = t

\* filepath.Dir: everything before the last separator
LastSlash(p) ==
    IF \E k \in 1..Len(p) : p[k] = "/"
    THEN CHOOSE k \in 1..Len(p) : p[k] = "/" /\ \A j \in (k + 1)..Len(p) : p[j] # "/"
    ELSE 0

Dir(p) ==
    LET k == LastSlash(p) IN
    IF k = 0 THEN <<".">>
    ELSE IF k = 1 THEN <<"/">>
    ELSE SubSeq(p, 1, k - 1)

\* ------------------------------------------------------------- spec package
\* spec.True
True == Str("true")

\* the context keys of the namespace flags
NSTargetFlagName == "ns_target"
NSPidFlagName == "ns_pid"
NSMntFlagName == "ns_mnt"
NSNetFlagName == "ns_net"

\* spec.BinPath and spec.NSExecBin under util.GetProgramPath()
ProgramPath == <<"/", "opt", "/", "chaosblade">>
BinPath == "bin"
NSExecBin == "nsexec"

\* util.GetBladePath()
BladePath == <<"/", "opt", "/", "chaosblade", "/", "blade">>

NoErr == <<>>
NoResp == [code |-> "none", success |-> FALSE, result |-> <<>>, err |-> <<>>]

\* spec.ResponseFailWithFlags(codeType, flags...): the flags fill the message
ResponseFailWithFlags(codeType, flags) ==
    [code |-> codeType, success |-> FALSE, result |-> <<>>, err |-> flags]

\* spec.ReturnSuccess(result)
ReturnSuccess(result) ==
    [code |-> "OK", success |-> TRUE, result |-> result, err |-> <<>>]

\* the documents the subprocess may print that json.Unmarshal accepts
JsonOK == "{\"code\":200,\"success\":true,\"result\":\"done\"}"
JsonFail == "{\"code\":47000,\"success\":false,\"error\":\"bad flag\"}"
JsonSentinel == "{\"code\":ResultUnmarshalFailed,\"success\":false}"

JsonDocs == {JsonOK, JsonFail, JsonSentinel}

Unmarshal(doc) ==
    CASE doc = JsonOK -> [code |-> "OK", success |-> TRUE, result |-> Str("done"), err |-> <<>>]
      [] doc = JsonFail -> [code |-> "ParameterInvalid", success |-> FALSE, result |-> <<>>,
                            err |-> <<Str("bad flag")>>]
      [] doc = JsonSentinel -> [code |-> "ResultUnmarshalFailed", success |-> FALSE,
                                result |-> <<>>, err |-> <<>>]

\* spec.Decode(content, nil): blanks around the document are accepted
Decodable(content) ==
    LET t == TrimSpace(content) IN Len(t) = 1 /\ t[1] \in JsonDocs

Decode(content) ==
    IF Decodable(content)
    THEN Unmarshal(TrimSpace(content)[1])
    ELSE ResponseFailWithFlags("ResultUnmarshalFailed", <<content, Str("invalid character")>>)

\* ---------------------------------------------------------------- packages
PkgMain == <<"/", "tmp", "/", "pkg.tar">>
PkgOther == <<"/", "tmp", "/", "lib.tar">>
PkgText == <<"/", "tmp", "/", "notes.txt">>
PkgGone == <<"/", "srv", "/", "gone.tar">>
PkgSrv == <<"/", "srv", "/", "pkg.tar">>

Scripts == {PkgMain, PkgOther, PkgText, PkgGone, PkgSrv, BladePath}

\* what is always on the disk; the blade command may or may not be installed
BaseDisk == {PkgMain, PkgOther, PkgText, PkgSrv}

\* a recognizable archive, and the names of the files directly inside it
IsArchive(script) == script \in {PkgMain, PkgOther, PkgSrv}

Entries(script) ==
    CASE script = PkgMain -> {"main", "lib.sh"}
      [] script = PkgSrv -> {"main"}
      [] script = PkgOther -> {"lib.sh"}
      [] OTHER -> {}

\* util.IsExist
IsExist(files, script) == script \in files

\* isBladeCommand
isBladeCommand(script) == script = BladePath

\* UnTar(script, dir): the files of a readable archive land under dir
UnTar(files, script, dir) ==
    IF IsExist(files, script) /\ IsArchive(script)
    THEN {<<dir, f>> : f \in Entries(script)}
    ELSE {}

\* os.Stat(path): nil, or the error of a missing file
StatErr(tree, dir, name) ==
    IF <<dir, name>> \in tree THEN NoErr
    ELSE <<"stat", SP>> \o dir \o <<"/", name, ":", SP, "no", SP, "such", SP, "file">>

\* ---------------------------------------------------------------- requests
Pids == {Str("1234"), Str("7")}
FlagKeys == {NSPidFlagName, NSMntFlagName, NSNetFlagName}

\* a flag that is not requested is absent from the context, or set to "false"
Off(ctx, k) == IF k = NSMntFlagName THEN ctx @@ (k :> Str("false")) ELSE ctx

RECURSIVE WithFlags(_, _, _)
WithFlags(ctx, keys, on) ==
    IF keys = {} THEN ctx
    ELSE LET k == CHOOSE x \in keys : TRUE IN
         WithFlags(IF k \in on THEN ctx @@ (k :> True) ELSE Off(ctx, k), keys \ {k}, on)

Contexts ==
    {WithFlags(<<>>, FlagKeys, on) : on \in SUBSET FlagKeys}
    \cup {WithFlags(NSTargetFlagName :> t, FlagKeys, on) : t \in Pids, on \in SUBSET FlagKeys}

ArgStrings == {<<>>, <<"--cpu", SP, "2">>}
Uids == {Str("u1")}

Requests == [ctx : Contexts, script : Scripts, args : ArgStrings, uid : Uids]

\* what the helper may print, and how exec.Cmd.CombinedOutput may fail
Outputs == {<<>>, <<SP, NL>>, <<"sh:", SP, "oops", NL>>, <<JsonOK>>, <<JsonFail, NL>>, <<JsonSentinel>>}
ExitError == <<"exit", SP, "status", SP, "1">>
Killed == <<"signal:", SP, "killed">>
StartError == <<"fork/exec", SP, "failed">>
DeadlineExceeded == <<"context", SP, "deadline", SP, "exceeded">>

\* --------------------------------------------------------------- RunScript
\* mutant: tests the pid for the empty string instead of nil
PidMissing_EmptyString(ctx) ==
    NSTargetFlagName \in DOMAIN ctx /\ ctx[NSTargetFlagName] = <<>>

\* pid == nil
PidMissing(ctx) == NSTargetFlagName \notin DOMAIN ctx

\* ctx.Value(key) == spec.True
Requested(ctx, key) == key \in DOMAIN ctx /\ ctx[key] = True

\* ctx.Value(key) as %s prints it
Value(ctx, key) == IF key \in DOMAIN ctx THEN ctx[key] ELSE Str("%!s(<nil>)")

\* return spec.ResponseFailWithFlags(spec.CommandIllegal, script)
PidRejection(script) == ResponseFailWithFlags("CommandIllegal", <<script>>)

\* mutant: the network flag is tested before the mount flag
ComposeFlags_NetFirst(ctx) ==
    LET s0 == <<"-t", SP>> \o Value(ctx, NSTargetFlagName)
        s1 == IF Requested(ctx, NSPidFlagName) THEN s0 \o <<SP, "-p">> ELSE s0
        s2 == IF Requested(ctx, NSNetFlagName) THEN s1 \o <<SP, "-n">> ELSE s1
        s3 == IF Requested(ctx, NSMntFlagName) THEN s2 \o <<SP, "-m">> ELSE s2
    IN  s3

\* ns_script after the three flag tests
ComposeFlags(ctx) ==
    LET s0 == <<"-t", SP>> \o Value(ctx, NSTargetFlagName)
        s1 == IF Requested(ctx, NSPidFlagName) THEN s0 \o <<SP, "-p">> ELSE s0
        s2 == IF Requested(ctx, NSMntFlagName) THEN s1 \o <<SP, "-m">> ELSE s1
        s3 == IF Requested(ctx, NSNetFlagName) THEN s2 \o <<SP, "-n">> ELSE s2
    IN  s3

\* mutant: the existence test applies to every script
BladeMissing_AnyScript(files, script) == ~IsExist(files, script)

\* isBladeCommand && !util.IsExist(script)
BladeMissing(files, script) == isBladeCommand(script) /\ ~IsExist(files, script)

\* filepath.Dir(script) + "/" + fmt.Sprintf("%d", time.Now().UnixNano())
TarDistDir(script, t) == Dir(script) \o <<"/", ToString(t)>>

\* tarDistDir + "/main"
ScriptMain(dir) == dir \o <<"/", "main">>

\* mutant: the staging directory is tested instead of the entry point
EntryPointMissing_StatsDir(tree, dir) == ~\E f \in {"main", "lib.sh"} : <<dir, f>> \in tree

\* os.IsNotExist(err) of os.Stat(scriptMain)
EntryPointMissing(tree, dir) == StatErr(tree, dir, "main") # NoErr

\* " script files must contain main file " + err.Error()
MissingMessage(tree, dir) ==
    <<SP, "script", SP, "files", SP, "must", SP, "contain", SP, "main", SP, "file", SP>>
        \o StatErr(tree, dir, "main")

\* ns_script with " -- /bin/sh -c" appended
ShellPrefix(ns) == ns \o <<SP, "--", SP, "/bin/sh", SP, "-c">>

\* path.Join(programPath, spec.BinPath, spec.NSExecBin)
Bin ==
    LET base == IF ProgramPath[Len(ProgramPath)] # BinPath
                THEN ProgramPath \o <<"/", BinPath>> ELSE ProgramPath
    IN  base \o <<"/", NSExecBin>>

\* the arguments of cmdChmod
ChmodArgv(ns, scriptMain) == << <<"chmod", SP, "777", SP>> \o scriptMain >>

\* the recorded command: script -t 2><time> -a <out> [-c "]<main>[ args]["]
Wrap(os, scriptMain, args, uid) ==
    LET time == <<"/tmp/">> \o uid \o <<".time">>
        out == <<"/tmp/">> \o uid \o <<".out">>
        head == <<"script", SP, SP, "-t", SP, "2>">> \o time \o <<SP, "-a", SP>> \o out
        tail == IF args # <<>> THEN scriptMain \o <<SP>> \o args ELSE scriptMain
    IN  IF os = "darwin"
        THEN head \o <<SP>> \o tail
        ELSE head \o <<SP, SP, "-c", SP, SP, "\"">> \o tail \o <<"\"">>

\* append(strings.Split(ns_script, " "), args)
MainArgv(ns, args) == Append(Split(ns), args)

\* exec.Cmd as ResponseFailWithFlags prints it
CmdString(argv) == [path |-> Bin, args |-> argv]

\* mutant: the helper's error is tested before its output is decoded
DecodeResult_ErrFirst(outMsg, err, argv) ==
    IF err # NoErr
    THEN ResponseFailWithFlags("OsCmdExecFailed", <<CmdString(argv), outMsg \o <<SP>> \o err>>)
    ELSE IF TrimSpace(outMsg) # <<>> /\ Decode(outMsg).code # "ResultUnmarshalFailed"
    THEN Decode(outMsg)
    ELSE ReturnSuccess(outMsg)

\* mutant: the success payload is the trimmed output
DecodeResult_Trimmed(outMsg, err, argv) ==
    IF TrimSpace(outMsg) # <<>> /\ Decode(outMsg).code # "ResultUnmarshalFailed"
    THEN Decode(outMsg)
    ELSE IF err = NoErr
    THEN ReturnSuccess(TrimSpace(outMsg))
    ELSE ResponseFailWithFlags("OsCmdExecFailed", <<CmdString(argv), outMsg \o <<SP>> \o err>>)

\* the verdict on the helper's output and error
DecodeResult(outMsg, err, argv) ==
    IF TrimSpace(outMsg) # <<>> /\ Decode(outMsg).code # "ResultUnmarshalFailed"
    THEN Decode(outMsg)
    ELSE IF err = NoErr
    THEN ReturnSuccess(outMsg)
    ELSE ResponseFailWithFlags("OsCmdExecFailed", <<CmdString(argv), outMsg \o <<SP>> \o err>>)

\* mutant: only a non-zero exit of the chmod command counts as a failure
ChmodFailed_ExitOnly(err) == err = ExitError

\* the verdict on the chmod command
ChmodFailed(err) == err # NoErr

ChmodResult(out, err, argv) ==
    ResponseFailWithFlags("OsCmdExecFailed", <<CmdString(argv), out \o <<SP>> \o err>>)

\* ------------------------------------------------------------------- state
NoReq == [ctx |-> <<>>, script |-> <<>>, args |-> <<>>, uid |-> <<>>]

Idle ==
    [pc |-> "idle", req |-> NoReq, ns_script |-> <<>>, tarDistDir |-> <<>>,
     expired |-> FALSE, steps |-> <<>>, launches |-> <<>>, child |-> "none",
     out |-> <<>>, err |-> NoErr, resp |-> NoResp]

\* return resp
Return(r, resp) == [r EXCEPT !.pc = "done", !.resp = resp]

\* the goroutines that call RunScript and the requests they make
Callers == IF load = "concurrent" THEN Invocations ELSE {1}

ConcurrentRequests ==
    [ctx : {WithFlags(NSTargetFlagName :> Str("1234"), FlagKeys, {NSMntFlagName})},
     script : {PkgMain, PkgOther, PkgSrv}, args : {<<>>}, uid : Uids]

Allowed == IF load = "concurrent" THEN ConcurrentRequests ELSE Requests

Init ==
    /\ goos \in {"linux", "darwin"}
    /\ disk \in {BaseDisk, BaseDisk \cup {BladePath}}
    /\ now = 1
    /\ staged = {}
    /\ inv = [i \in Invocations |-> Idle]
    /\ load = "single"

InitConcurrent ==
    /\ goos = "linux"
    /\ disk = BaseDisk
    /\ now = 1
    /\ staged = {}
    /\ inv = [i \in Invocations |-> Idle]
    /\ load = "concurrent"

\* time passes between two readings of the clock
Tick ==
    /\ now < MaxClock
    /\ now' = now + 1
    /\ UNCHANGED <<goos, disk, staged, inv, load>>

\* lines 116-145: the pid test, the flags, the package test, the deadline and
\* the name of the staging directory
Call(i, req) ==
    /\ inv[i].pc = "idle"
    /\ i \in Callers
    /\ LET r == [inv[i] EXCEPT !.req = req] IN
       inv' = [inv EXCEPT ![i] =
           IF PidMissing(req.ctx)
           THEN Return([r EXCEPT !.steps = <<"pid">>],
                       PidRejection(req.script))
           ELSE IF BladeMissing(disk, req.script)
           THEN Return([r EXCEPT !.steps = <<"pid", "package">>,
                                 !.ns_script = ComposeFlags(req.ctx)],
                       ResponseFailWithFlags("ChaosbladeFileNotFound", <<req.script>>))
           ELSE [r EXCEPT !.pc = "untar", !.steps = <<"pid", "package">>,
                          !.ns_script = ComposeFlags(req.ctx),
                          !.tarDistDir = TarDistDir(req.script, now)]]
    /\ UNCHANGED <<goos, disk, now, staged, load>>

\* line 146: UnTar(script, tarDistDir)
Extract(i) ==
    /\ inv[i].pc = "untar"
    /\ staged' = staged \cup UnTar(disk, inv[i].req.script, inv[i].tarDistDir)
    /\ inv' = [inv EXCEPT ![i].pc = "stat", ![i].steps = Append(@, "untar")]
    /\ UNCHANGED <<goos, disk, now, load>>

\* lines 148-154: the entry point must exist
CheckMain(i) ==
    /\ inv[i].pc = "stat"
    /\ inv' = [inv EXCEPT ![i] =
           IF EntryPointMissing(staged, inv[i].tarDistDir)
           THEN Return([@ EXCEPT !.steps = Append(@, "stat")],
                       ResponseFailWithFlags("FileNotExist",
                           <<MissingMessage(staged, inv[i].tarDistDir)>>))
           ELSE [@ EXCEPT !.pc = "chmod", !.steps = Append(@, "stat"),
                          !.ns_script = ShellPrefix(@)]]
    /\ UNCHANGED <<goos, disk, now, staged, load>>

\* the 60 second deadline of timeoutCtx passes (line 141)
Expire(i) ==
    /\ inv[i].pc \in {"untar", "stat", "chmod", "chmodWait", "main", "mainWait"}
    /\ ~inv[i].expired
    /\ inv' = [inv EXCEPT ![i].expired = TRUE]
    /\ UNCHANGED <<goos, disk, now, staged, load>>

\* what the chmod command may print
ChmodOutputs == {<<>>, <<"chmod:", SP, "denied", NL>>}

\* how a started command may end: by itself, or killed once the deadline passed
EndErrors(r) == {NoErr, ExitError} \cup (IF r.expired THEN {Killed} ELSE {})

\* why a command does not start: the context is already done, or fork/exec fails
StartErrors(r) == IF r.expired THEN {DeadlineExceeded} ELSE {NoErr, StartError}

\* lines 164-165: cmdChmod is started
ChmodStart(i) ==
    /\ inv[i].pc = "chmod"
    /\ \E e \in StartErrors(inv[i]) :
         LET r == [inv[i] EXCEPT !.steps = Append(@, "chmod"), !.err = e]
             argv == ChmodArgv(r.ns_script, ScriptMain(r.tarDistDir))
         IN  inv' = [inv EXCEPT ![i] =
                 IF e = NoErr
                 THEN [r EXCEPT !.pc = "chmodWait",
                                !.launches = Append(@, [cmd |-> "chmod", bin |-> Bin, argv |-> argv])]
                 ELSE IF ChmodFailed(e) THEN Return(r, ChmodResult(<<>>, e, argv))
                 ELSE [r EXCEPT !.pc = "main"]]
    /\ UNCHANGED <<goos, disk, now, staged, load>>

\* lines 165-171: cmdChmod.CombinedOutput() returns
ChmodFinish(i) ==
    /\ inv[i].pc = "chmodWait"
    /\ \E out \in ChmodOutputs, e \in EndErrors(inv[i]) :
         LET r == [inv[i] EXCEPT !.err = e]
             argv == r.launches[Len(r.launches)].argv
         IN  inv' = [inv EXCEPT ![i] =
                 IF ChmodFailed(e) THEN Return(r, ChmodResult(out, e, argv))
                 ELSE [r EXCEPT !.pc = "main"]]
    /\ UNCHANGED <<goos, disk, now, staged, load>>

\* lines 173-196: the recorded command is built and cmd is started
MainStart(i) ==
    /\ inv[i].pc = "main"
    /\ \E e \in StartErrors(inv[i]) :
         LET r == [inv[i] EXCEPT !.steps = Append(@, "main")]
             args == Wrap(goos, ScriptMain(r.tarDistDir), r.req.args, r.req.uid)
             argv == MainArgv(r.ns_script, args)
         IN  inv' = [inv EXCEPT ![i] =
                 IF e # NoErr
                 THEN Return([r EXCEPT !.steps = Append(@, "decode"), !.err = e],
                             DecodeResult(<<>>, e, argv))
                 ELSE [r EXCEPT !.pc = "mainWait",
                                !.launches = Append(@, [cmd |-> "main", bin |-> Bin, argv |-> argv])]]
    /\ UNCHANGED <<goos, disk, now, staged, load>>

\* the helper's shell starts the recorded script, which inherits the output pipe
Spawn(i) ==
    /\ inv[i].pc = "mainWait"
    /\ inv[i].child = "none"
    /\ inv' = [inv EXCEPT ![i].child = "piped"]
    /\ UNCHANGED <<goos, disk, now, staged, load>>

\* the script redirects its output and goes to the background
Detach(i) ==
    /\ inv[i].child = "piped"
    /\ inv' = [inv EXCEPT ![i].child = "detached"]
    /\ UNCHANGED <<goos, disk, now, staged, load>>

\* the script ends
ChildExit(i) ==
    /\ inv[i].child \in {"piped", "detached"}
    /\ inv' = [inv EXCEPT ![i].child = "none"]
    /\ UNCHANGED <<goos, disk, now, staged, load>>

\* lines 196-210: cmd.CombinedOutput() returns once the helper has ended (or
\* was killed at the deadline) and the output pipe is closed; then the verdict
MainFinish(i) ==
    /\ inv[i].pc = "mainWait"
    /\ inv[i].child # "piped"
    /\ \E out \in Outputs, e \in EndErrors(inv[i]) :
         LET r == [inv[i] EXCEPT !.steps = Append(@, "decode"), !.out = out, !.err = e]
             argv == r.launches[Len(r.launches)].argv
         IN  inv' = [inv EXCEPT ![i] = Return(r, DecodeResult(out, e, argv))]
    /\ UNCHANGED <<goos, disk, now, staged, load>>

Next ==
    \/ Tick
    \/ \E i \in Invocations, req \in Allowed : Call(i, req)
    \/ \E i \in Invocations : Extract(i)
    \/ \E i \in Invocations : CheckMain(i)
    \/ \E i \in Invocations : Expire(i)
    \/ \E i \in Invocations : ChmodStart(i)
    \/ \E i \in Invocations : ChmodFinish(i)
    \/ \E i \in Invocations : MainStart(i)
    \/ \E i \in Invocations : Spawn(i)
    \/ \E i \in Invocations : Detach(i)
    \/ \E i \in Invocations : ChildExit(i)
    \/ \E i \in Invocations : MainFinish(i)

Spec == Init /\ [][Next]_vars

SpecConcurrent == InitConcurrent /\ [][Next]_vars

\* ------------------------------------------------------------------ claims
Called(i) == inv[i].pc # "idle"
Done(i) == inv[i].pc = "done"
Launches(i, c) == {k \in 1..Len(inv[i].launches) : inv[i].launches[k].cmd = c}
Decoded(i) == Done(i) /\ Len(inv[i].steps) = 7
IsPrefix(s, t) == Len(s) <= Len(t) /\ SubSeq(t, 1, Len(s)) = s
StageOrder == <<"pid", "package", "untar", "stat", "chmod", "main", "decode">>
MountAndNet(ctx) ==
    /\ Requested(ctx, NSMntFlagName) /\ Requested(ctx, NSNetFlagName)
    /\ ~Requested(ctx, NSPidFlagName)

\* C1: a call whose context carries no target pid returns the CommandIllegal
\* failure, and nothing was extracted, stat-ed or launched by it.
C1_NoPidIsRejected ==
    \A i \in Invocations :
        (Called(i) /\ NSTargetFlagName \notin DOMAIN inv[i].req.ctx) =>
            /\ Done(i)
            /\ inv[i].resp.code = "CommandIllegal" /\ ~inv[i].resp.success
            /\ inv[i].steps = <<"pid">>
            /\ inv[i].launches = <<>>
            /\ inv[i].tarDistDir = <<>>
            /\ (load = "single" => staged = {})

C1_Witness ==
    \E i \in Invocations :
        /\ Done(i) /\ NSTargetFlagName \notin DOMAIN inv[i].req.ctx
        /\ inv[i].req.script = PkgMain /\ Requested(inv[i].req.ctx, NSMntFlagName)
        /\ inv[i].req.args # <<>>

\* C2: when the helper's output, trimmed, is not empty and decodes to a
\* Response whose code is not ResultUnmarshalFailed, that Response is
\* returned unchanged, whatever the helper's error.
C2_DecodedIsReturned ==
    \A i \in Invocations :
        (Decoded(i) /\ TrimSpace(inv[i].out) # <<>> /\ Decodable(inv[i].out)
                    /\ Unmarshal(TrimSpace(inv[i].out)[1]).code # "ResultUnmarshalFailed") =>
            inv[i].resp = Unmarshal(TrimSpace(inv[i].out)[1])

C2_Witness ==
    \E i \in Invocations :
        /\ Decoded(i) /\ inv[i].out = <<JsonFail, NL>> /\ inv[i].err = ExitError
        /\ inv[i].resp.code = "ParameterInvalid"

\* C3: when the helper reports no error and its output is blank or does not
\* decode (or decodes to the ResultUnmarshalFailed code), the call returns
\* success with the raw, untrimmed output as result; for pid 1234, mount and
\* network namespaces, a package with main and no output: success, "".
C3_RawOutputIsSuccess ==
    \A i \in Invocations :
        (Decoded(i) /\ Launches(i, "main") # {} /\ inv[i].err = NoErr
            /\ (\/ TrimSpace(inv[i].out) = <<>>
                \/ ~Decodable(inv[i].out)
                \/ Unmarshal(TrimSpace(inv[i].out)[1]).code = "ResultUnmarshalFailed")) =>
            /\ inv[i].resp.success
            /\ inv[i].resp.result = inv[i].out
            /\ inv[i].resp.code = "OK"

C3_Witness ==
    \E i \in Invocations :
        /\ Decoded(i) /\ inv[i].err = NoErr /\ inv[i].out = <<>>
        /\ inv[i].req.ctx[NSTargetFlagName] = Str("1234") /\ MountAndNet(inv[i].req.ctx)
        /\ inv[i].req.script = PkgMain
        /\ inv[i].resp.success /\ inv[i].resp.result = <<>>

\* C4: when the helper was still running at the deadline and was killed, the
\* call returns the OsCmdExecFailed failure and no process it started is
\* left running.
C4_TimeoutFailsAndLeavesNoProcess ==
    \A i \in Invocations :
        (Done(i) /\ Launches(i, "main") # {} /\ inv[i].err = Killed) =>
            /\ inv[i].resp.code = "OsCmdExecFailed"
            /\ inv[i].child = "none"

C6_NoMainIsRejected ==
    \A i \in Invocations :
        (\E k \in 1..Len(inv[i].steps) : inv[i].steps[k] = "stat")
            /\ <<inv[i].tarDistDir, "main">> \notin staged =>
                /\ Done(i)
                /\ inv[i].resp.code = "FileNotExist" /\ ~inv[i].resp.success
                /\ Contains(inv[i].resp.err[1],
                            <<"stat", SP>> \o inv[i].tarDistDir
                                \o <<"/", "main", ":", SP, "no", SP, "such", SP, "file">>)
                /\ inv[i].launches = <<>>
                /\ inv[i].steps = <<"pid", "package", "untar", "stat">>

C6_Witness ==
    \E i \in Invocations :
        /\ Done(i) /\ inv[i].req.script = PkgOther
        /\ <<inv[i].tarDistDir, "lib.sh">> \in staged
        /\ inv[i].resp.code = "FileNotExist"

\* the argument vector -t <pid> [-p] [-m] [-n] -- /bin/sh -c <command>
HelperArgv(ctx, command) ==
    <<Str("-t"), ctx[NSTargetFlagName]>>
        \o (IF Requested(ctx, NSPidFlagName) THEN <<Str("-p")>> ELSE <<>>)
        \o (IF Requested(ctx, NSMntFlagName) THEN <<Str("-m")>> ELSE <<>>)
        \o (IF Requested(ctx, NSNetFlagName) THEN <<Str("-n")>> ELSE <<>>)
        \o <<Str("--"), Str("/bin/sh"), Str("-c"), command>>

\* C7: the helper is started for the main execution with exactly -t, the
\* pid, then -p, -m, -n in that order for the requested namespaces, then
\* --, /bin/sh, -c and the whole recorded command as one last argument.
C7_MainArgvIsOrdered ==
    \A i \in Invocations : \A k \in Launches(i, "main") :
        LET a == inv[i].launches[k].argv IN
        /\ a = HelperArgv(inv[i].req.ctx, a[Len(a)])
        /\ a[Len(a)] = Wrap(goos, inv[i].tarDistDir \o <<"/", "main">>,
                            inv[i].req.args, inv[i].req.uid)
        /\ SP \in {a[Len(a)][j] : j \in 1..Len(a[Len(a)])}

C7_Witness ==
    \E i \in Invocations : \E k \in Launches(i, "main") :
        /\ MountAndNet(inv[i].req.ctx)
        /\ inv[i].req.args # <<>>
        /\ SubSeq(inv[i].launches[k].argv, 1, 4)
               = <<Str("-t"), inv[i].req.ctx[NSTargetFlagName], Str("-m"), Str("-n")>>

\* C8: the chmod command is started through the helper with the same
\* -t <pid> and namespace flags as the main execution, then -- /bin/sh -c
\* and the chmod command.
C8_ChmodRunsInNamespaces ==
    \A i \in Invocations : \A k \in Launches(i, "chmod") :
        inv[i].launches[k].argv
            = HelperArgv(inv[i].req.ctx,
                         <<"chmod", SP, "777", SP>> \o inv[i].tarDistDir \o <<"/", "main">>)

\* C9: no two invocations use the same staging directory.
C9_StagingIsExclusive ==
    \A i, j \in Invocations :
        (i # j /\ inv[i].tarDistDir # <<>> /\ inv[j].tarDistDir # <<>>) =>
            inv[i].tarDistDir # inv[j].tarDistDir

\* C10: the stages run in the fixed order; each command is launched at most
\* once, chmod before main; main is entered only after chmod ended without
\* error; a chmod that fails ends the call with OsCmdExecFailed and no main.
C10_StagesInOrder ==
    \A i \in Invocations :
        /\ IsPrefix(inv[i].steps, StageOrder)
        /\ IsPrefix([k \in 1..Len(inv[i].launches) |-> inv[i].launches[k].cmd],
                    <<"chmod", "main">>)
        /\ inv[i].pc \in {"main", "mainWait"} =>
               inv[i].err = NoErr /\ Launches(i, "chmod") # {}
        /\ (Called(i) /\ ~Done(i)) => inv[i].resp = NoResp
        /\ (Done(i) /\ Len(inv[i].steps) = 5) =>
               /\ inv[i].err # NoErr
               /\ inv[i].resp.code = "OsCmdExecFailed"
               /\ Launches(i, "main") = {}

C10_Witness ==
    \E i \in Invocations :
        /\ Done(i) /\ Len(inv[i].steps) = 5 /\ inv[i].err = Killed
        /\ inv[i].resp.code = "OsCmdExecFailed"
        /\ Launches(i, "chmod") # {}

====
